---- MODULE Spec2Model ----
(***************************************************************************)
(* Model of bpyrenderer/lighting.py: the procedural lighting engine.       *)
(*                                                                         *)
(* Python floats are modelled as exact rationals <<n, d>> in lowest terms  *)
(* (d > 0). Angles in radians are rational multiples of pi: the rational   *)
(* q stands for q * pi. Python dicts are TLA+ records/functions whose      *)
(* DOMAIN is the set of keys present; lists and tuples are sequences.      *)
(***************************************************************************)
EXTENDS Integers, Sequences, FiniteSets, TLC

VARIABLES scene, rng, store, made, call, calls, rgb, callers, driver

vars == <<scene, rng, store, made, call, calls, rgb, callers, driver>>

(***************************************************************************)
(* Bounds of the model.                                                    *)
(***************************************************************************)
\* number of states of the random source (seeds 0 .. RngStates-1)
RngStates == 8
\* random.uniform(a, b) returns a + (b-a)*k/UniformSteps, k in 0..UniformSteps
UniformSteps == 2
\* a run makes at most this many calls of the engine
MaxCalls == 2
\* blackbody_to_rgb is applied to the temperatures 25*k Kelvin, k in MinKelvinStep..MaxKelvinStep
MinKelvinStep == 80
MaxKelvinStep == 320

(***************************************************************************)
(* Exact rational arithmetic standing for Python float arithmetic.         *)
(***************************************************************************)
RECURSIVE GCD(_, _)
GCD(a, b) == IF b = 0 THEN a ELSE GCD(b, a % b)

Abs(n) == IF n < 0 THEN -n ELSE n

\* the rational n/d (d # 0) in lowest terms with a positive denominator
R(n, d) ==
    LET s == IF d < 0 THEN -1 ELSE 1
        g == GCD(Abs(n), Abs(d))
    IN  <<(s * n) \div g, (s * d) \div g>>

Num(n) == <<n, 1>>
Add(a, b) == R(a[1] * b[2] + b[1] * a[2], a[2] * b[2])
Sub(a, b) == R(a[1] * b[2] - b[1] * a[2], a[2] * b[2])
Mul(a, b) == R(a[1] * b[1], a[2] * b[2])
Div(a, b) == R(a[1] * b[2], a[2] * b[1])
Neg(a) == <<-a[1], a[2]>>
Leq(a, b) == a[1] * b[2] <= b[1] * a[2]
Lt(a, b) == a[1] * b[2] < b[1] * a[2]
Between(x, lo, hi) == Leq(lo, x) /\ Leq(x, hi)
Zero == Num(0)
One == Num(1)

\* math.sqrt on the rationals that are squares of rationals
ISqrt(n) == CHOOSE k \in 0..n : k * k = n
Sqrt(a) == <<ISqrt(a[1]), ISqrt(a[2])>>

\* math.pi / np.pi, in units of pi
Pi == One

\* math.radians(deg): deg * pi / 180, in units of pi
Radians(deg) == Div(Mul(deg, Pi), Num(180))

\* np.sin / np.cos on the multiples of pi/2 (the angles the model samples)
QuarterTurns(a) == (Mul(a, Num(2))[1]) % 4
Sin(a) == CASE QuarterTurns(a) = 0 -> Zero
            [] QuarterTurns(a) = 1 -> One
            [] QuarterTurns(a) = 2 -> Zero
            [] QuarterTurns(a) = 3 -> Num(-1)
Cos(a) == CASE QuarterTurns(a) = 0 -> One
            [] QuarterTurns(a) = 1 -> Zero
            [] QuarterTurns(a) = 2 -> Num(-1)
            [] QuarterTurns(a) = 3 -> Zero

\* math.atan2(y, x) in units of pi, on the axes and the diagonals
Atan2(y, x) ==
    CASE y = Zero /\ Leq(Zero, x) -> Zero
      [] y = Zero /\ Lt(x, Zero) -> One
      [] x = Zero /\ Lt(Zero, y) -> R(1, 2)
      [] x = Zero /\ Lt(y, Zero) -> R(-1, 2)
      [] x = y /\ Lt(Zero, x) -> R(1, 4)
      [] x = y /\ Lt(x, Zero) -> R(-3, 4)
      [] x = Neg(y) /\ Lt(Zero, x) -> R(-1, 4)
      [] x = Neg(y) /\ Lt(x, Zero) -> R(3, 4)

\* list(x) / tuple(x): a new sequence with the same items in the same order
List(x) == [i \in 1..Len(x) |-> x[i]]
Tuple(x) == [i \in 1..Len(x) |-> x[i]]

\* Python's None
None == "<None>"

\* dict helpers: key deletion and insertion (used to build input records)
DictDel(m, k) == [j \in DOMAIN m \ {k} |-> m[j]]
DictSet(m, k, v) == [j \in DOMAIN m \cup {k} |-> IF j = k THEN v ELSE m[j]]
\* dict.get(k): the value, or None when the key is absent
DictGet(m, k) == IF k \in DOMAIN m THEN m[k] ELSE None

(***************************************************************************)
(* blackbody_to_rgb (lighting.py:171-189)                                  *)
(***************************************************************************)
\* mutant: the second branch clamps blue to 1.0
blackbody_to_rgb_clamped(temperature) ==
    IF Leq(temperature, Num(4000))
    THEN <<One,
           Add(R(7, 10), Div(Mul(R(3, 10), Sub(temperature, Num(2700))), Num(1300))),
           Add(R(4, 10), Div(Mul(R(6, 10), Sub(temperature, Num(2700))), Num(1300)))>>
    ELSE LET b == Add(R(8, 10), Div(Mul(R(2, 10), Sub(temperature, Num(4000))), Num(2500)))
         IN  <<One, One, IF Leq(b, One) THEN b ELSE One>>

\* mutant: the boundary 4000 K falls in the second branch (< instead of <=)
blackbody_to_rgb_strict(temperature) ==
    IF Lt(temperature, Num(4000))
    THEN <<One,
           Add(R(7, 10), Div(Mul(R(3, 10), Sub(temperature, Num(2700))), Num(1300))),
           Add(R(4, 10), Div(Mul(R(6, 10), Sub(temperature, Num(2700))), Num(1300)))>>
    ELSE <<One, One,
           Add(R(8, 10), Div(Mul(R(2, 10), Sub(temperature, Num(4000))), Num(2500)))>>

blackbody_to_rgb(temperature) ==
    IF Leq(temperature, Num(4000))
    THEN <<One,
           Add(R(7, 10), Div(Mul(R(3, 10), Sub(temperature, Num(2700))), Num(1300))),
           Add(R(4, 10), Div(Mul(R(6, 10), Sub(temperature, Num(2700))), Num(1300)))>>
    ELSE <<One, One,
           Add(R(8, 10), Div(Mul(R(2, 10), Sub(temperature, Num(4000))), Num(2500)))>>

\* the copy of the function in the example script (render_random_lights.py:60-71)
example_blackbody_to_rgb(temperature) ==
    IF Leq(temperature, Num(4000))
    THEN <<One,
           Add(R(7, 10), Div(Mul(R(3, 10), Sub(temperature, Num(2700))), Num(1300))),
           Add(R(4, 10), Div(Mul(R(6, 10), Sub(temperature, Num(2700))), Num(1300)))>>
    ELSE <<One, One,
           Add(R(8, 10), Div(Mul(R(2, 10), Sub(temperature, Num(4000))), Num(2500)))>>

(***************************************************************************)
(* The Blender scene: bpy.data.objects, a sequence of object records.      *)
(***************************************************************************)
Vec3(x, y, z) == <<x, y, z>>
Origin == Vec3(Zero, Zero, Zero)

\* the objects of the loaded scene that are not lights
CameraObject == [type |-> "CAMERA", name |-> "Camera", location |-> Origin,
                 rotation_euler |-> Origin]
MeshObject == [type |-> "MESH", name |-> "Object", location |-> Origin,
               rotation_euler |-> Origin]

\* bpy's default for the size_y of a new area light (left alone for SQUARE and DISK)
DefaultSizeY == R(1, 4)

\* mathutils.Euler(rotation): the three angles of the given sequence
Euler(rotation) == Vec3(rotation[1], rotation[2], rotation[3])

\* mutant: the light data is created but the object is never linked to the scene
add_point_light_unlinked(sc, location, energy, color, size) ==
    LET light_obj == [type |-> "LIGHT", data_type |-> "POINT", name |-> "Point_Light",
                      energy |-> energy, color |-> color, shadow_soft_size |-> size,
                      location |-> location, rotation_euler |-> Origin]
    IN  [scene |-> sc, obj |-> light_obj]

add_point_light(sc, location, energy, color, size) ==
    LET light_obj == [type |-> "LIGHT", data_type |-> "POINT", name |-> "Point_Light",
                      energy |-> energy, color |-> color, shadow_soft_size |-> size,
                      location |-> location, rotation_euler |-> Origin]
    IN  [scene |-> Append(sc, light_obj), obj |-> light_obj]

add_area_light(sc, location, rotation, energy, color, size, shape) ==
    LET light_obj == [type |-> "LIGHT", data_type |-> "AREA", name |-> "Area_Light",
                      energy |-> energy, color |-> color, shape |-> shape,
                      size |-> size[1],
                      size_y |-> IF shape \in {"RECTANGLE", "ELLIPSE"}
                                 THEN size[2] ELSE DefaultSizeY,
                      location |-> location, rotation_euler |-> Euler(rotation)]
    IN  [scene |-> Append(sc, light_obj), obj |-> light_obj]

add_sun_light(sc, rotation, energy, color, angle) ==
    LET light_obj == [type |-> "LIGHT", data_type |-> "SUN", name |-> "Sun_Light",
                      energy |-> energy, color |-> color, angle |-> angle,
                      location |-> Origin, rotation_euler |-> Euler(rotation)]
    IN  [scene |-> Append(sc, light_obj), obj |-> light_obj]

\* default arguments of add_area_light (lighting.py:32-36)
AreaDefaultRotation == Vec3(Zero, Zero, Zero)
AreaDefaultShape == "RECTANGLE"

\* the three canonical rotations of setup_studio_lighting
StudioKeyRotation == Vec3(Radians(Num(45)), Radians(Num(0)), Radians(Num(45)))
StudioFillRotation == Vec3(Radians(Num(30)), Radians(Num(0)), Radians(Num(-45)))
StudioBackRotation == Vec3(Radians(Num(-45)), Radians(Num(0)), Radians(Num(0)))

setup_studio_lighting(sc, key_light_energy, fill_light_energy, back_light_energy, key_light_color, fill_light_color, back_light_color) ==
    LET key == add_area_light(sc, Vec3(Num(4), Num(-4), Num(4)), StudioKeyRotation,
                              key_light_energy, key_light_color,
                              <<Num(2), Num(1)>>, AreaDefaultShape)
        fill == add_area_light(key.scene, Vec3(Num(-4), Num(-4), Num(2)), StudioFillRotation,
                               fill_light_energy, fill_light_color,
                               <<Num(3), Num(2)>>, AreaDefaultShape)
        back == add_area_light(fill.scene, Vec3(Num(0), Num(4), Num(3)), StudioBackRotation,
                               back_light_energy, back_light_color,
                               <<Num(2), R(1, 2)>>, AreaDefaultShape)
    IN  [scene |-> back.scene, lights |-> <<key.obj, fill.obj, back.obj>>]

IsLight(obj) == obj.type = "LIGHT"
LightsOf(sc) == SelectSeq(sc, IsLight)
NonLightsOf(sc) == SelectSeq(sc, LAMBDA o : ~IsLight(o))

\* mutant: removing while iterating makes the loop step over the object that
\* follows each removed light
RECURSIVE ClearSkipping(_, _)
ClearSkipping(sc, i) ==
    IF i > Len(sc) THEN <<>>
    ELSE IF sc[i].type = "LIGHT"
    THEN (IF i + 1 <= Len(sc) THEN <<sc[i + 1]>> ELSE <<>>) \o ClearSkipping(sc, i + 2)
    ELSE <<sc[i]>> \o ClearSkipping(sc, i + 1)

clear_lights_skipping(sc) == ClearSkipping(sc, 1)

\* clear_lights (lighting.py:191-195): every object of type LIGHT is removed
clear_lights(sc) == SelectSeq(sc, LAMBDA o : o.type # "LIGHT")

(***************************************************************************)
(* The process-wide random source (the module-level functions of random).  *)
(* Its state is a number; every draw reads the state and advances it.      *)
(***************************************************************************)
NextRng(s) == (5 * s + 3) % RngStates

RECURSIVE Advance(_, _)
Advance(s, n) == IF n = 0 THEN s ELSE Advance(NextRng(s), n - 1)

\* the state that the k-th draw of a call reads, s being the state at the call
Draw(s, k) == Advance(s, k - 1)

\* random.random(): a value in [0, 1)
random01(s) == R(s, RngStates)

\* random.uniform(a, b) == a + (b-a) * random(); b itself can come out by rounding
uniform(s, a, b) == Add(a, Mul(Sub(b, a), R(s % (UniformSteps + 1), UniformSteps)))

\* random.uniform(a, b) for an angle that is fed to sin/cos: the draws of the model
\* are the multiples of pi/2 from a to b
uniform_angle(s, a, b) ==
    LET n == Mul(Sub(b, a), Num(2))[1]
    IN  Add(a, R(s % (n + 1), 2))

\* random.randint(a, b): an integer in a..b
randint(s, a, b) == a + (s % (b - a + 1))

\* random.choices(population, weights)[0]: bisect of random() * total in the
\* cumulative weights
RECURSIVE CumWeight(_, _)
CumWeight(weights, i) == IF i = 0 THEN Zero ELSE Add(CumWeight(weights, i - 1), weights[i])

choices(s, population, weights) ==
    LET n == Len(population)
        x == Mul(random01(s), CumWeight(weights, n))
        \* bisect_right(cum_weights, x, 0, n - 1)
        idx == Cardinality({i \in 1..(n - 1) : Leq(CumWeight(weights, i), x)})
    IN  population[idx + 1]

(***************************************************************************)
(* generate_random_lighting_setup (lighting.py:197-443)                    *)
(***************************************************************************)
\* the dict lighting_types: its keys in insertion order, and its values
lighting_types == <<"studio", "dramatic", "natural", "random", "env_map">>
lighting_weights == <<R(25, 100), R(2, 10), R(25, 100), R(15, 100), R(15, 100)>>

Range(f) == {f[i] : i \in DOMAIN f}

\* mutant: the upper end of the cool band is mistyped
color_temps_cool_8500 ==
    [warm |-> <<Num(2700), Num(3500)>>,
     neutral |-> <<Num(4000), Num(5500)>>,
     cool |-> <<Num(6000), Num(8500)>>]

\* the dict color_temps
color_temps == [warm |-> <<Num(2700), Num(3500)>>,
                neutral |-> <<Num(4000), Num(5500)>>,
                cool |-> <<Num(6000), Num(7500)>>]

\* exceptions: the class raised and the message's parts
NoError == [type |-> "", msg |-> "", value |-> "", valid |-> <<>>]
ValueError(msg, value, valid) ==
    [type |-> "ValueError", msg |-> msg, value |-> value, valid |-> valid]
KeyError(msg, value) ==
    [type |-> "KeyError", msg |-> msg, value |-> value, valid |-> <<>>]

\* lighting_type == 'env_map' (lighting.py:239-244)
sample_env_map(lighting_type, sc, s) ==
    [scene |-> sc, rng |-> NextRng(s), draws |-> 1, lights |-> <<>>,
     metadata |-> [lighting_type |-> lighting_type, lights |-> <<>>,
                   env_map |-> [strength |-> uniform(s, R(8, 10), R(15, 10))]]]

\* lighting_type == 'studio' (lighting.py:246-294)
sample_studio(lighting_type, sc, s) ==
    LET key_energy == uniform(Draw(s, 1), Num(800), Num(1500))
        fill_energy == uniform(Draw(s, 2), Num(200), Num(600))
        back_energy == uniform(Draw(s, 3), Num(400), Num(800))
        key_temp == uniform(Draw(s, 4), color_temps.neutral[1], color_temps.neutral[2])
        fill_temp == uniform(Draw(s, 5), color_temps.cool[1], color_temps.cool[2])
        back_temp == uniform(Draw(s, 6), color_temps.warm[1], color_temps.warm[2])
        studio == setup_studio_lighting(sc, key_energy, fill_energy, back_energy,
                                      blackbody_to_rgb(key_temp),
                                      blackbody_to_rgb(fill_temp),
                                      blackbody_to_rgb(back_temp))
    IN  [scene |-> studio.scene, rng |-> Advance(s, 6), draws |-> 6, lights |-> studio.lights,
         metadata |->
           [lighting_type |-> lighting_type,
            lights |-> <<
              [type |-> "area", role |-> "key", energy |-> key_energy,
               color_temperature |-> key_temp,
               position |-> <<Num(4), Num(-4), Num(4)>>,
               rotation |-> <<Radians(Num(45)), Num(0), Radians(Num(45))>>,
               size |-> <<Num(2), Num(1)>>],
              [type |-> "area", role |-> "fill", energy |-> fill_energy,
               color_temperature |-> fill_temp,
               position |-> <<Num(-4), Num(-4), Num(2)>>,
               rotation |-> <<Radians(Num(30)), Num(0), Radians(Num(-45))>>,
               size |-> <<Num(3), Num(2)>>],
              [type |-> "area", role |-> "back", energy |-> back_energy,
               color_temperature |-> back_temp,
               position |-> <<Num(0), Num(4), Num(3)>>,
               rotation |-> <<Radians(Num(-45)), Num(0), Num(0)>>,
               size |-> <<Num(2), R(1, 2)>>] >>]]

\* spherical to Cartesian (lighting.py:305-309, 415-419)
Spherical(r, theta, phi) ==
    <<Mul(Mul(r, Sin(phi)), Cos(theta)),
      Mul(Mul(r, Sin(phi)), Sin(theta)),
      Mul(r, Cos(phi))>>

\* the rotation that points at the centre (lighting.py:312-316)
FacingRotation(pos) ==
    <<Atan2(Neg(pos[3]), Sqrt(Add(Mul(pos[1], pos[1]), Mul(pos[2], pos[2])))),
      Num(0),
      Add(Atan2(pos[2], pos[1]), Pi)>>

\* f"dramatic_{i+1}" and f"random_{i+1}"
RoleName(prefix, i) == prefix \o "_" \o ToString(i + 1)

\* one pass of the loop of the dramatic branch (lighting.py:299-341); i counts from 0
RECURSIVE dramatic_loop(_, _, _)
dramatic_loop(i, num_lights, acc) ==
    IF i >= num_lights THEN acc
    ELSE
      LET theta == uniform_angle(Draw(acc.rng, 1), Zero, Mul(Num(2), Pi))
          phi == uniform_angle(Draw(acc.rng, 2), Zero, Div(Pi, Num(2)))
          r == uniform(Draw(acc.rng, 3), Num(2), Num(4))
          pos == Spherical(r, theta, phi)
          rot == FacingRotation(pos)
          energy == uniform(Draw(acc.rng, 4), Num(1000), Num(2000))
          temp == uniform(Draw(acc.rng, 5), color_temps.warm[1], color_temps.warm[2])
          size == <<uniform(Draw(acc.rng, 6), R(1, 2), Num(2)), uniform(Draw(acc.rng, 7), R(1, 2), Num(2))>>
          light == add_area_light(acc.scene, pos, rot, energy, blackbody_to_rgb(temp),
                                  size, "RECTANGLE")
      IN  dramatic_loop(i + 1, num_lights,
            [scene |-> light.scene, rng |-> Advance(acc.rng, 7), draws |-> acc.draws + 7,
             lights |-> Append(acc.lights, light.obj),
             mlights |-> Append(acc.mlights,
               [type |-> "area", role |-> RoleName("dramatic", i), energy |-> energy,
                color_temperature |-> temp, position |-> List(pos),
                rotation |-> List(rot), size |-> size])])

\* mutant: one to three dramatic lights
sample_dramatic_upto3(lighting_type, sc, s) ==
    LET num_lights == randint(s, 1, 3)
        done == dramatic_loop(0, num_lights,
                  [scene |-> sc, rng |-> NextRng(s), draws |-> 1,
                   lights |-> <<>>, mlights |-> <<>>])
    IN  [scene |-> done.scene, rng |-> done.rng, draws |-> done.draws,
         lights |-> done.lights,
         metadata |-> [lighting_type |-> lighting_type, lights |-> done.mlights]]

\* lighting_type == 'dramatic' (lighting.py:296-341)
sample_dramatic(lighting_type, sc, s) ==
    LET num_lights == randint(s, 1, 2)
        done == dramatic_loop(0, num_lights,
                  [scene |-> sc, rng |-> NextRng(s), draws |-> 1,
                   lights |-> <<>>, mlights |-> <<>>])
    IN  [scene |-> done.scene, rng |-> done.rng, draws |-> done.draws,
         lights |-> done.lights,
         metadata |-> [lighting_type |-> lighting_type, lights |-> done.mlights]]

\* lighting_type == 'natural' (lighting.py:343-397)
sample_natural(lighting_type, sc, s) ==
    LET sun_rot == <<Radians(uniform(Draw(s, 1), Num(-60), Num(-30))),
                     Radians(uniform(Draw(s, 2), Num(0), Num(360))),
                     Num(0)>>
        sun_energy == uniform(Draw(s, 3), Num(2), Num(5))
        sun_angle == Radians(uniform(Draw(s, 4), R(1, 2), Num(5)))
        sun_temp == uniform(Draw(s, 5), color_temps.neutral[1], color_temps.neutral[2])
        sun == add_sun_light(sc, sun_rot, sun_energy, blackbody_to_rgb(sun_temp), sun_angle)
        fill_pos == <<uniform(Draw(s, 6), Num(-3), Num(3)),
                      uniform(Draw(s, 7), Num(-3), Num(3)),
                      uniform(Draw(s, 8), Num(1), Num(3))>>
        fill_energy == uniform(Draw(s, 9), Num(200), Num(400))
        fill_temp == uniform(Draw(s, 10), color_temps.cool[1], color_temps.cool[2])
        fill_size == <<uniform(Draw(s, 11), Num(1), Num(3)), uniform(Draw(s, 12), Num(1), Num(3))>>
        fill == add_area_light(sun.scene, fill_pos, AreaDefaultRotation, fill_energy,
                               blackbody_to_rgb(fill_temp), fill_size, AreaDefaultShape)
    IN  [scene |-> fill.scene, rng |-> Advance(s, 12), draws |-> 12,
         lights |-> <<sun.obj, fill.obj>>,
         metadata |->
           [lighting_type |-> lighting_type,
            lights |-> <<
              [type |-> "sun", role |-> "main", energy |-> sun_energy,
               color_temperature |-> sun_temp, rotation |-> List(sun_rot),
               angle |-> sun_angle],
              [type |-> "area", role |-> "fill", energy |-> fill_energy,
               color_temperature |-> fill_temp, position |-> List(fill_pos),
               size |-> fill_size] >>]]

\* mutant: the realized colour of a point light is not stored in its entry
RECURSIVE random_loop_no_color(_, _, _)
random_loop_no_color(i, num_lights, acc) ==
    IF i >= num_lights THEN acc
    ELSE
      LET theta == uniform_angle(Draw(acc.rng, 1), Zero, Mul(Num(2), Pi))
          phi == uniform_angle(Draw(acc.rng, 2), Zero, Pi)
          r == uniform(Draw(acc.rng, 3), Num(2), Num(4))
          pos == Spherical(r, theta, phi)
          energy == uniform(Draw(acc.rng, 4), Num(300), Num(800))
          temp == uniform(Draw(acc.rng, 5), color_temps.neutral[1], color_temps.neutral[2])
          light == add_point_light(acc.scene, pos, energy, blackbody_to_rgb(temp), R(1, 10))
      IN  random_loop_no_color(i + 1, num_lights,
            [scene |-> light.scene, rng |-> Advance(acc.rng, 5), draws |-> acc.draws + 5,
             lights |-> Append(acc.lights, light.obj),
             mlights |-> Append(acc.mlights,
               [type |-> "point", role |-> RoleName("random", i), energy |-> energy,
                color_temperature |-> temp,
                position |-> List(pos), size |-> R(1, 10)])])

\* one pass of the loop of the random branch (lighting.py:409-441); i counts from 0
RECURSIVE random_loop(_, _, _)
random_loop(i, num_lights, acc) ==
    IF i >= num_lights THEN acc
    ELSE
      LET theta == uniform_angle(Draw(acc.rng, 1), Zero, Mul(Num(2), Pi))
          phi == uniform_angle(Draw(acc.rng, 2), Zero, Pi)
          r == uniform(Draw(acc.rng, 3), Num(2), Num(4))
          pos == Spherical(r, theta, phi)
          energy == uniform(Draw(acc.rng, 4), Num(300), Num(800))
          temp == uniform(Draw(acc.rng, 5), color_temps.neutral[1], color_temps.neutral[2])
          color == blackbody_to_rgb(temp)
          light == add_point_light(acc.scene, pos, energy, color, R(1, 10))
      IN  random_loop(i + 1, num_lights,
            [scene |-> light.scene, rng |-> Advance(acc.rng, 5), draws |-> acc.draws + 5,
             lights |-> Append(acc.lights, light.obj),
             mlights |-> Append(acc.mlights,
               [type |-> "point", role |-> RoleName("random", i), energy |-> energy,
                color_temperature |-> temp, color |-> List(color),
                position |-> List(pos), size |-> R(1, 10)])])

\* the else branch: random point lights (lighting.py:399-441)
sample_random(lighting_type, sc, s) ==
    LET num_lights == randint(s, 2, 5)
        done == random_loop(0, num_lights,
                  [scene |-> sc, rng |-> NextRng(s), draws |-> 1,
                   lights |-> <<>>, mlights |-> <<>>])
    IN  [scene |-> done.scene, rng |-> done.rng, draws |-> done.draws,
         lights |-> done.lights,
         metadata |-> [lighting_type |-> lighting_type, lights |-> done.mlights]]

\* the branch that samples the chosen archetype (lighting.py:239-443)
sample(lighting_type, sc, s) ==
    IF lighting_type = "env_map" THEN sample_env_map(lighting_type, sc, s)
    ELSE IF lighting_type = "studio" THEN sample_studio(lighting_type, sc, s)
    ELSE IF lighting_type = "dramatic" THEN sample_dramatic(lighting_type, sc, s)
    ELSE IF lighting_type = "natural" THEN sample_natural(lighting_type, sc, s)
    ELSE sample_random(lighting_type, sc, s)

\* the outcome of a call: raised or returned, what it returned, and what it left
Outcome(raised, error, lights, metadata, sc, s, draws, chose) ==
    [raised |-> raised, error |-> error, lights |-> lights, metadata |-> metadata,
     scene |-> sc, rng |-> s, draws |-> draws, chose |-> chose]

\* what generate returns: the sampler's result; extra counts the archetype draw
Returned(got, extra, chose) ==
    Outcome(FALSE, NoError, got.lights, got.metadata, got.scene, got.rng,
            got.draws + extra, chose)

\* mutant: the archetype is drawn even when one is forced
generate_always_draws(lighting_type, sc, s) ==
    IF lighting_type # None /\ lighting_type \notin Range(lighting_types)
    THEN Outcome(TRUE, ValueError("Invalid lighting type", lighting_type, lighting_types),
                 <<>>, <<>>, sc, s, 0, FALSE)
    ELSE Returned(sample(choices(s, lighting_types, lighting_weights), sc, NextRng(s)),
                  1, TRUE)

\* mutant: the name is not validated; an unknown name falls to the else branch
generate_unvalidated(lighting_type, sc, s) ==
    IF lighting_type = None
    THEN Returned(sample(choices(s, lighting_types, lighting_weights), sc, NextRng(s)),
                  1, TRUE)
    ELSE Returned(sample(lighting_type, sc, s), 0, FALSE)

generate_random_lighting_setup(lighting_type, sc, s) ==
    IF lighting_type # None /\ lighting_type \notin Range(lighting_types)
    THEN Outcome(TRUE, ValueError("Invalid lighting type", lighting_type, lighting_types),
                 <<>>, <<>>, sc, s, 0, FALSE)
    ELSE IF lighting_type = None
    THEN Returned(sample(choices(s, lighting_types, lighting_weights), sc, NextRng(s)),
                  1, TRUE)
    ELSE Returned(sample(lighting_type, sc, s), 0, FALSE)

(***************************************************************************)
(* setup_lighting_from_metadata (lighting.py:445-545)                      *)
(***************************************************************************)
valid_types == <<"env_map", "studio", "dramatic", "natural", "random">>

\* the first key of keys that light_info lacks (None when it has them all): the
\* subscript light_info[key] that raises KeyError(key)
RECURSIVE FirstMissing(_, _, _)
FirstMissing(light_info, keys, i) ==
    IF i > Len(keys) THEN None
    ELSE IF keys[i] \notin DOMAIN light_info THEN keys[i]
    ELSE FirstMissing(light_info, keys, i + 1)

\* what one pass of a loop over metadata['lights'] does
Pass(raised, error, sc, new) == [raised |-> raised, error |-> error, scene |-> sc, new |-> new]
Skip(sc) == Pass(FALSE, NoError, sc, <<>>)
Made(light) == Pass(FALSE, NoError, light.scene, <<light.obj>>)
Raised(error, sc) == Pass(TRUE, error, sc, <<>>)

\* mutant: a stored colour, when there is one, is used instead of the temperature
area_from_info_stored_color(light_info, sc, shape) ==
    LET missing == FirstMissing(light_info,
                     <<"position", "rotation", "energy", "color_temperature", "size">>, 1)
    IN  IF missing # None THEN Raised(KeyError("", missing), sc)
        ELSE Made(add_area_light(sc, Tuple(light_info["position"]),
                                 Tuple(light_info["rotation"]), light_info["energy"],
                                 IF "color" \in DOMAIN light_info
                                 THEN Tuple(light_info["color"])
                                 ELSE blackbody_to_rgb(light_info["color_temperature"]),
                                 Tuple(light_info["size"]), shape))

\* an area light built from position, rotation, energy, color_temperature, size
\* (lighting.py:484-490, 499-506)
area_from_info(light_info, sc, shape) ==
    LET missing == FirstMissing(light_info,
                     <<"position", "rotation", "energy", "color_temperature", "size">>, 1)
    IN  IF missing # None THEN Raised(KeyError("", missing), sc)
        ELSE Made(add_area_light(sc, Tuple(light_info["position"]),
                                 Tuple(light_info["rotation"]), light_info["energy"],
                                 blackbody_to_rgb(light_info["color_temperature"]),
                                 Tuple(light_info["size"]), shape))

\* mutant: the role is read with a default, so an entry without one is skipped
studio_entry_get_role(light_info, sc) ==
    IF DictGet(light_info, "role") \in {"key", "fill", "back"}
    THEN area_from_info(light_info, sc, AreaDefaultShape)
    ELSE Skip(sc)

\* mutant: the fields of an entry are read before its role is looked at
studio_entry_reads_first(light_info, sc) ==
    IF "role" \notin DOMAIN light_info
    THEN Raised(KeyError("Studio light metadata must include 'role'", ""), sc)
    ELSE IF FirstMissing(light_info,
              <<"position", "rotation", "energy", "color_temperature", "size">>, 1) # None
    THEN Raised(KeyError("", FirstMissing(light_info,
              <<"position", "rotation", "energy", "color_temperature", "size">>, 1)), sc)
    ELSE IF light_info["role"] \in {"key", "fill", "back"}
    THEN area_from_info(light_info, sc, AreaDefaultShape)
    ELSE Skip(sc)

\* the body of the studio loop (lighting.py:480-491)
studio_entry(light_info, sc) ==
    IF "role" \notin DOMAIN light_info
    THEN Raised(KeyError("Studio light metadata must include 'role'", ""), sc)
    ELSE IF light_info["role"] \in {"key", "fill", "back"}
    THEN area_from_info(light_info, sc, AreaDefaultShape)
    ELSE Skip(sc)

\* the body of the dramatic loop (lighting.py:495-507)
dramatic_entry(light_info, sc) ==
    IF "type" \notin DOMAIN light_info
    THEN Raised(KeyError("Dramatic light metadata must include 'type'", ""), sc)
    ELSE IF light_info["type"] = "area"
    THEN area_from_info(light_info, sc, "RECTANGLE")
    ELSE Skip(sc)

\* default angle of add_sun_light (lighting.py:69)
SunDefaultAngle == R(526, 1000)

\* mutant: the sun is rebuilt without its stored angle
natural_entry_default_angle(light_info, sc) ==
    IF "type" \notin DOMAIN light_info
    THEN Raised(KeyError("Natural light metadata must include 'type'", ""), sc)
    ELSE IF light_info["type"] = "sun"
    THEN LET missing == FirstMissing(light_info,
                          <<"rotation", "energy", "color_temperature">>, 1)
         IN  IF missing # None THEN Raised(KeyError("", missing), sc)
             ELSE Made(add_sun_light(sc, Tuple(light_info["rotation"]),
                                     light_info["energy"],
                                     blackbody_to_rgb(light_info["color_temperature"]),
                                     SunDefaultAngle))
    ELSE IF light_info["type"] = "area"
    THEN LET missing == FirstMissing(light_info,
                          <<"position", "energy", "color_temperature", "size">>, 1)
         IN  IF missing # None THEN Raised(KeyError("", missing), sc)
             ELSE Made(add_area_light(sc, Tuple(light_info["position"]),
                                      AreaDefaultRotation, light_info["energy"],
                                      blackbody_to_rgb(light_info["color_temperature"]),
                                      Tuple(light_info["size"]), AreaDefaultShape))
    ELSE Skip(sc)

\* the body of the natural loop (lighting.py:511-529)
natural_entry(light_info, sc) ==
    IF "type" \notin DOMAIN light_info
    THEN Raised(KeyError("Natural light metadata must include 'type'", ""), sc)
    ELSE IF light_info["type"] = "sun"
    THEN LET missing == FirstMissing(light_info,
                          <<"rotation", "energy", "color_temperature", "angle">>, 1)
         IN  IF missing # None THEN Raised(KeyError("", missing), sc)
             ELSE Made(add_sun_light(sc, Tuple(light_info["rotation"]),
                                     light_info["energy"],
                                     blackbody_to_rgb(light_info["color_temperature"]),
                                     light_info["angle"]))
    ELSE IF light_info["type"] = "area"
    THEN LET missing == FirstMissing(light_info,
                          <<"position", "energy", "color_temperature", "size">>, 1)
         IN  IF missing # None THEN Raised(KeyError("", missing), sc)
             ELSE Made(add_area_light(sc, Tuple(light_info["position"]),
                                      AreaDefaultRotation, light_info["energy"],
                                      blackbody_to_rgb(light_info["color_temperature"]),
                                      Tuple(light_info["size"]), AreaDefaultShape))
    ELSE Skip(sc)

\* mutant: the colour of a point light is regenerated from the stored temperature
random_entry_rederived(light_info, sc) ==
    IF "type" \notin DOMAIN light_info
    THEN Raised(KeyError("Random light metadata must include 'type'", ""), sc)
    ELSE IF light_info["type"] = "point"
    THEN LET missing == FirstMissing(light_info,
                          <<"position", "energy", "color_temperature", "size">>, 1)
         IN  IF missing # None THEN Raised(KeyError("", missing), sc)
             ELSE Made(add_point_light(sc, Tuple(light_info["position"]),
                                       light_info["energy"],
                                       blackbody_to_rgb(light_info["color_temperature"]),
                                       light_info["size"]))
    ELSE Skip(sc)

\* the body of the loop of the else branch (lighting.py:532-543)
random_entry(light_info, sc) ==
    IF "type" \notin DOMAIN light_info
    THEN Raised(KeyError("Random light metadata must include 'type'", ""), sc)
    ELSE IF light_info["type"] = "point"
    THEN LET missing == FirstMissing(light_info,
                          <<"position", "energy", "color", "size">>, 1)
         IN  IF missing # None THEN Raised(KeyError("", missing), sc)
             ELSE Made(add_point_light(sc, Tuple(light_info["position"]),
                                       light_info["energy"],
                                       Tuple(light_info["color"]),
                                       light_info["size"]))
    ELSE Skip(sc)

\* mutant: the natural branch runs the loop body of the dramatic branch
decode_entry_natural_as_dramatic(lighting_type, light_info, sc) ==
    IF lighting_type = "studio" THEN studio_entry(light_info, sc)
    ELSE IF lighting_type \in {"dramatic", "natural"} THEN dramatic_entry(light_info, sc)
    ELSE random_entry(light_info, sc)

\* the loop body of the branch of lighting_type
decode_entry(lighting_type, light_info, sc) ==
    IF lighting_type = "studio" THEN studio_entry(light_info, sc)
    ELSE IF lighting_type = "dramatic" THEN dramatic_entry(light_info, sc)
    ELSE IF lighting_type = "natural" THEN natural_entry(light_info, sc)
    ELSE random_entry(light_info, sc)

RECURSIVE decode_loop(_, _, _, _)

\* after the pass p over entry i: a raise ends the loop and leaves in the scene
\* what the earlier passes linked
decode_step(lighting_type, entries, i, acc, p) ==
    IF p.raised
    THEN [raised |-> TRUE, error |-> p.error, scene |-> p.scene, lights |-> acc.lights]
    ELSE decode_loop(lighting_type, entries, i + 1,
           [raised |-> FALSE, error |-> NoError, scene |-> p.scene,
            lights |-> acc.lights \o p.new])

\* for light_info in metadata['lights']: the passes from entry i on
decode_loop(lighting_type, entries, i, acc) ==
    IF i > Len(entries) THEN acc
    ELSE decode_step(lighting_type, entries, i, acc,
                     decode_entry(lighting_type, entries[i], acc.scene))

\* what the call returns or raises once the loop has ended
Decoded(done, s) ==
    Outcome(done.raised, done.error, IF done.raised THEN <<>> ELSE done.lights,
            <<>>, done.scene, s, 0, FALSE)

\* mutant: the point lights of a random record are sampled afresh
decode_lights_resampled(lighting_type, metadata, sc, s) ==
    IF lighting_type = "random"
    THEN Returned(sample_random(lighting_type, sc, s), 0, FALSE)
    ELSE Decoded(decode_loop(lighting_type, metadata["lights"], 1,
                             [raised |-> FALSE, error |-> NoError, scene |-> sc,
                              lights |-> <<>>]), s)

\* the loop over metadata['lights'], started on the scene sc
decode_lights(lighting_type, metadata, sc, s) ==
    Decoded(decode_loop(lighting_type, metadata["lights"], 1,
                        [raised |-> FALSE, error |-> NoError, scene |-> sc,
                         lights |-> <<>>]), s)

\* mutant: the lights list is looked for before the tag is validated
decode_typed_lights_first(lighting_type, metadata, sc, s) ==
    IF lighting_type # "env_map" /\ "lights" \notin DOMAIN metadata
    THEN Outcome(TRUE, KeyError("Metadata must include 'lights' array", lighting_type),
                 <<>>, <<>>, sc, s, 0, FALSE)
    ELSE IF lighting_type \notin Range(valid_types)
    THEN Outcome(TRUE, ValueError("Invalid lighting_type", lighting_type, valid_types),
                 <<>>, <<>>, sc, s, 0, FALSE)
    ELSE IF lighting_type = "env_map"
    THEN Outcome(FALSE, NoError, <<>>, <<>>, sc, s, 0, FALSE)
    ELSE decode_lights(lighting_type, metadata, sc, s)

\* mutant: an absent lights list is read as an empty one
decode_typed_default_lights(lighting_type, metadata, sc, s) ==
    IF lighting_type \notin Range(valid_types)
    THEN Outcome(TRUE, ValueError("Invalid lighting_type", lighting_type, valid_types),
                 <<>>, <<>>, sc, s, 0, FALSE)
    ELSE IF lighting_type = "env_map" \/ "lights" \notin DOMAIN metadata
    THEN Outcome(FALSE, NoError, <<>>, <<>>, sc, s, 0, FALSE)
    ELSE decode_lights(lighting_type, metadata, sc, s)

\* mutant: the env_map branch reads the stored environment strength
decode_typed_env_strength(lighting_type, metadata, sc, s) ==
    IF lighting_type \notin Range(valid_types)
    THEN Outcome(TRUE, ValueError("Invalid lighting_type", lighting_type, valid_types),
                 <<>>, <<>>, sc, s, 0, FALSE)
    ELSE IF lighting_type = "env_map" /\ "env_map" \notin DOMAIN metadata
    THEN Outcome(TRUE, KeyError("", "env_map"), <<>>, <<>>, sc, s, 0, FALSE)
    ELSE IF lighting_type = "env_map"
    THEN Outcome(FALSE, NoError, <<>>, <<>>, sc, s, 0, FALSE)
    ELSE IF "lights" \notin DOMAIN metadata
    THEN Outcome(TRUE, KeyError("Metadata must include 'lights' array", lighting_type),
                 <<>>, <<>>, sc, s, 0, FALSE)
    ELSE decode_lights(lighting_type, metadata, sc, s)

\* the checks on the record once lighting_type is known to be present
decode_typed(lighting_type, metadata, sc, s) ==
    IF lighting_type \notin Range(valid_types)
    THEN Outcome(TRUE, ValueError("Invalid lighting_type", lighting_type, valid_types),
                 <<>>, <<>>, sc, s, 0, FALSE)
    ELSE IF lighting_type = "env_map"
    THEN Outcome(FALSE, NoError, <<>>, <<>>, sc, s, 0, FALSE)
    ELSE IF "lights" \notin DOMAIN metadata
    THEN Outcome(TRUE, KeyError("Metadata must include 'lights' array", lighting_type),
                 <<>>, <<>>, sc, s, 0, FALSE)
    ELSE decode_lights(lighting_type, metadata, sc, s)

\* mutant: a missing lighting_type is reported as a KeyError, like a missing lights
setup_lighting_missing_type_keyerror(metadata, sc, s) ==
    IF DictGet(metadata, "lighting_type") = None
    THEN Outcome(TRUE, KeyError("Metadata must include 'lighting_type'", ""),
                 <<>>, <<>>, sc, s, 0, FALSE)
    ELSE decode_typed(DictGet(metadata, "lighting_type"), metadata, sc, s)

setup_lighting_from_metadata(metadata, sc, s) ==
    IF DictGet(metadata, "lighting_type") = None
    THEN Outcome(TRUE, ValueError("Metadata must include 'lighting_type'", "", <<>>),
                 <<>>, <<>>, sc, s, 0, FALSE)
    ELSE decode_typed(DictGet(metadata, "lighting_type"), metadata, sc, s)

(***************************************************************************)
(* The records handed to setup_lighting_from_metadata: the persisted       *)
(* record itself, and the record with one edit (a key removed, a tag       *)
(* changed, a colour added, an entry removed).                             *)
(***************************************************************************)
StoredColor == <<R(1, 2), R(1, 2), R(1, 2)>>

RemoveAt(seq, i) == [j \in 1..(Len(seq) - 1) |-> IF j < i THEN seq[j] ELSE seq[j + 1]]

EntryEdits(light_info) ==
    {DictDel(light_info, k) : k \in DOMAIN light_info}
    \cup {DictSet(light_info, "type", "unknown"),
          DictSet(light_info, "role", "unknown"),
          DictSet(light_info, "color", StoredColor)}

RecordEdits(m) ==
    {DictDel(m, "lighting_type"), DictDel(m, "lights"),
     DictSet(m, "lighting_type", "bogus")}
    \cup {DictSet(m, "lighting_type", t) : t \in Range(valid_types)}
    \cup (IF "lights" \in DOMAIN m
          THEN UNION {{[m EXCEPT !["lights"] = [@ EXCEPT ![i] = e]] :
                         e \in EntryEdits(m["lights"][i])} : i \in DOMAIN m["lights"]}
               \cup {[m EXCEPT !["lights"] = RemoveAt(@, i)] : i \in DOMAIN m["lights"]}
          ELSE {})

Inputs(m) == {m} \cup RecordEdits(m)

\* the names a caller passes as lighting_type
ForcedNames == {None} \cup Range(lighting_types) \cup {"bogus", "Studio"}

(***************************************************************************)
(* The state machine.                                                      *)
(***************************************************************************)
NoCall == [op |-> "none", forced |-> None, input |-> <<>>, raised |-> FALSE,
           error |-> NoError, lights |-> <<>>, metadata |-> <<>>,
           pre_scene |-> <<>>, pre_rng |-> 0, draws |-> 0, chose |-> FALSE]

NoRgb == [temperature |-> Zero, value |-> <<Zero, Zero, Zero>>,
          example |-> <<Zero, Zero, Zero>>, called |-> FALSE]

\* the callers of the engine that keep a result of their own, and the example
\* script's position, where neither is under study
NoCallers == [seed |-> 0, results |-> <<>>]
NoDriver == [pc |-> "none", i |-> 0, saved_meta |-> <<>>]

Init ==
    /\ scene = <<CameraObject, MeshObject>>
    /\ rng \in 0..(RngStates - 1)
    /\ store = <<>>
    /\ made = <<>>
    /\ call = NoCall
    /\ calls = 0
    /\ rgb = NoRgb
    /\ callers = NoCallers
    /\ driver = NoDriver

\* lights, metadata = generate_random_lighting_setup(forced); the caller keeps the
\* lights (made) and the metadata (store) it got
Generate(forced) ==
    /\ calls < MaxCalls
    /\ \E out \in {generate_random_lighting_setup(forced, scene, rng)} :
        /\ calls' = calls + 1
        /\ scene' = out.scene
        /\ rng' = out.rng
        /\ store' = IF out.raised THEN store ELSE out.metadata
        /\ made' = IF out.raised THEN made ELSE out.lights
        /\ call' = [op |-> "generate", forced |-> forced, input |-> <<>>,
                    raised |-> out.raised, error |-> out.error, lights |-> out.lights,
                    metadata |-> out.metadata, pre_scene |-> scene, pre_rng |-> rng,
                    draws |-> out.draws, chose |-> out.chose]
        /\ UNCHANGED <<rgb, callers, driver>>

\* lights = setup_lighting_from_metadata(input)
Reconstruct(input) ==
    /\ calls < MaxCalls
    /\ \E out \in {setup_lighting_from_metadata(input, scene, rng)} :
        /\ calls' = calls + 1
        /\ scene' = out.scene
        /\ rng' = out.rng
        /\ call' = [op |-> "reconstruct", forced |-> None, input |-> input,
                    raised |-> out.raised, error |-> out.error, lights |-> out.lights,
                    metadata |-> <<>>, pre_scene |-> scene, pre_rng |-> rng,
                    draws |-> out.draws, chose |-> out.chose]
        /\ UNCHANGED <<store, made, rgb, callers, driver>>

\* clear_lights()
ClearLights ==
    /\ calls < MaxCalls
    /\ calls' = calls + 1
    /\ scene' = clear_lights(scene)
    /\ call' = [NoCall EXCEPT !.op = "clear", !.pre_scene = scene, !.pre_rng = rng]
    /\ UNCHANGED <<rng, store, made, rgb, callers, driver>>

Next ==
    \/ \E forced \in ForcedNames : Generate(forced)
    \/ \E input \in Inputs(store) : Reconstruct(input)
    \/ ClearLights

Spec == Init /\ [][Next]_vars

(***************************************************************************)
(* blackbody_to_rgb alone, applied to a grid of temperatures.              *)
(***************************************************************************)
Temperatures ==
    {Num(25 * k) : k \in MinKelvinStep..MaxKelvinStep}
    \cup {R(8001, 2), R(7999, 2), R(13001, 2)}

InitColor ==
    /\ scene = <<CameraObject, MeshObject>>
    /\ rng = 0
    /\ store = <<>>
    /\ made = <<>>
    /\ call = NoCall
    /\ calls = 0
    /\ rgb = NoRgb
    /\ callers = NoCallers
    /\ driver = NoDriver

\* the function of the library and its copy in the example script, applied to t
Blackbody(t) ==
    /\ rgb' = [temperature |-> t, value |-> blackbody_to_rgb(t),
               example |-> example_blackbody_to_rgb(t), called |-> TRUE]
    /\ UNCHANGED <<scene, rng, store, made, call, calls, callers, driver>>

NextColor == \E t \in Temperatures : Blackbody(t)

SpecColor == InitColor /\ [][NextColor]_vars

(***************************************************************************)
(* Reconstruction alone: one setup is generated and its metadata kept, as  *)
(* the example script does (render_lighting.py:122-151); the lights may be *)
(* cleared; then the record, as kept or edited in up to two places, is     *)
(* handed to setup_lighting_from_metadata once.                            *)
(***************************************************************************)
\* an entry with an unrecognized discriminant value that also lacks another key
SkippedEntryEdits(light_info) ==
    {DictDel(DictSet(light_info, d, "unknown"), k) :
        d \in {"type", "role"}, k \in DOMAIN light_info \ {"type", "role"}}

\* an entry that has no discriminant at all
BareEntry == [energy |-> Num(1)]

\* the lights list with an entry i lacking its energy and an entry j its
\* discriminant
TwoEntryEdits(lights) ==
    {[lights EXCEPT ![i] = DictDel(@, "energy"), ![j] = DictDel(@, d)] :
        i \in DOMAIN lights, j \in DOMAIN lights, d \in {"type", "role"}}

\* the record with its lights list edited: an entry edited or removed, two
\* entries edited, the list removed, emptied, or replaced by one bare entry
LightListEdits(m) ==
    {DictDel(m, "lights"), DictSet(m, "lights", <<>>), DictSet(m, "lights", <<BareEntry>>)}
    \cup (IF "lights" \in DOMAIN m
          THEN UNION {{[m EXCEPT !["lights"] = [@ EXCEPT ![i] = e]] :
                         e \in EntryEdits(m["lights"][i])
                               \cup SkippedEntryEdits(m["lights"][i])} :
                      i \in DOMAIN m["lights"]}
               \cup {[m EXCEPT !["lights"] = RemoveAt(@, i)] : i \in DOMAIN m["lights"]}
               \cup {[m EXCEPT !["lights"] = e] : e \in TwoEntryEdits(m["lights"])}
          ELSE {})

\* a record as it is, without its tag, and with the tag of no archetype or of env_map
Retag(m) ==
    {m, DictDel(m, "lighting_type"), DictSet(m, "lighting_type", "bogus"),
     DictSet(m, "lighting_type", "env_map")}

WideInputs(m) ==
    Inputs(m) \cup {DictDel(m, "env_map")} \cup UNION {Retag(x) : x \in LightListEdits(m)}

DecodeGenerate(forced) == store = <<>> /\ Generate(forced)

DecodeReconstruct ==
    /\ store # <<>>
    /\ call.op # "reconstruct"
    /\ \E input \in WideInputs(store) : Reconstruct(input)

DecodeClearLights == call.op = "generate" /\ ClearLights

NextDecode ==
    \/ \E forced \in Range(lighting_types) : DecodeGenerate(forced)
    \/ DecodeReconstruct
    \/ DecodeClearLights

SpecDecode == Init /\ [][NextDecode]_vars

(***************************************************************************)
(* Two callers of the engine in one process. generate takes no random      *)
(* source: every draw goes to the module-level functions of `random`       *)
(* (lighting.py:1, 222-443), whose state is one per process, and every     *)
(* light goes to the one current scene. Each caller calls generate once,   *)
(* in either order, and keeps what it was returned.                        *)
(***************************************************************************)
Callers == {"A", "B"}

NoResult == [done |-> FALSE, forced |-> None, raised |-> FALSE,
             lights |-> <<>>, metadata |-> <<>>]

InitCallers ==
    /\ scene = <<CameraObject, MeshObject>>
    /\ rng \in 0..(RngStates - 1)
    /\ store = <<>>
    /\ made = <<>>
    /\ call = NoCall
    /\ calls = 0
    /\ rgb = NoRgb
    /\ callers = [seed |-> rng, results |-> [c \in Callers |-> NoResult]]
    /\ driver = NoDriver

\* caller c: lights, metadata = generate_random_lighting_setup(forced)
CallerGenerate(c, forced) ==
    /\ ~callers.results[c].done
    /\ \E out \in {generate_random_lighting_setup(forced, scene, rng)} :
        /\ calls' = calls + 1
        /\ scene' = out.scene
        /\ rng' = out.rng
        /\ callers' = [callers EXCEPT !.results[c] =
                          [done |-> TRUE, forced |-> forced, raised |-> out.raised,
                           lights |-> out.lights, metadata |-> out.metadata]]
        /\ call' = [op |-> "generate", forced |-> forced, input |-> <<>>,
                    raised |-> out.raised, error |-> out.error, lights |-> out.lights,
                    metadata |-> out.metadata, pre_scene |-> scene, pre_rng |-> rng,
                    draws |-> out.draws, chose |-> out.chose]
        /\ UNCHANGED <<store, made, rgb, driver>>

NextCallers == \E c \in Callers, forced \in ForcedNames : CallerGenerate(c, forced)

SpecCallers == InitCallers /\ [][NextCallers]_vars

(***************************************************************************)
(* The example script render_lighting.main: it opens the saved scene, then *)
(* for each of its five lighting types clears the lights, generates a      *)
(* setup, renders, writes the metadata file and clears the lights again;   *)
(* then it reads the metadata file of the studio example back, clears the  *)
(* lights, recreates the setup from the record, renders and writes the     *)
(* record. driver.pc is the statement the script is about to execute,      *)
(* driver.i the index of the loop, driver.saved_meta the content of        *)
(* studio_example/lighting_meta.json; made and store are the script's      *)
(* variables lights and lighting_metadata. Setting the environment map or  *)
(* the background colour and render itself create and remove no object.    *)
(***************************************************************************)
\* the list the loop of main runs over (render_lighting.py:57)
main_lighting_types == <<"studio", "dramatic", "natural", "random", "env_map">>

\* a light that the opened scene.blend may already hold
LeftoverLight ==
    [type |-> "LIGHT", data_type |-> "POINT", name |-> "Light",
     energy |-> Num(1000), color |-> <<One, One, One>>, shadow_soft_size |-> R(1, 4),
     location |-> Origin, rotation_euler |-> Origin]

\* the objects of the scene after bpy.ops.wm.open_mainfile
LoadedScenes ==
    {<<CameraObject, MeshObject>>,
     <<CameraObject, MeshObject, LeftoverLight>>,
     <<CameraObject, LeftoverLight, MeshObject, LeftoverLight>>}

InitMain ==
    /\ scene \in LoadedScenes
    /\ rng \in 0..(RngStates - 1)
    /\ store = <<>>
    /\ made = <<>>
    /\ call = NoCall
    /\ calls = 0
    /\ rgb = NoRgb
    /\ callers = NoCallers
    /\ driver = [pc |-> "loop_clear", i |-> 1, saved_meta |-> <<>>]

\* mutant: the loop does not clear the lights before it generates
MainLoopClearSkipped ==
    /\ driver.pc = "loop_clear"
    /\ driver' = [driver EXCEPT !.pc = "generate"]
    /\ UNCHANGED <<scene, rng, store, made, call, calls, rgb, callers>>

\* clear_lights(); clear_environment() at the top of an iteration
MainLoopClear ==
    /\ driver.pc = "loop_clear"
    /\ scene' = clear_lights(scene)
    /\ call' = [NoCall EXCEPT !.op = "clear", !.pre_scene = scene, !.pre_rng = rng]
    /\ calls' = calls + 1
    /\ driver' = [driver EXCEPT !.pc = "generate"]
    /\ UNCHANGED <<rng, store, made, rgb, callers>>

\* lights, lighting_metadata = generate_random_lighting_setup(lighting_type);
\* an exception ends the script
MainGenerate ==
    /\ driver.pc = "generate"
    /\ \E out \in {generate_random_lighting_setup(main_lighting_types[driver.i], scene, rng)} :
        /\ calls' = calls + 1
        /\ scene' = out.scene
        /\ rng' = out.rng
        /\ store' = IF out.raised THEN store ELSE out.metadata
        /\ made' = IF out.raised THEN made ELSE out.lights
        /\ call' = [op |-> "generate", forced |-> main_lighting_types[driver.i],
                    input |-> <<>>, raised |-> out.raised, error |-> out.error,
                    lights |-> out.lights, metadata |-> out.metadata,
                    pre_scene |-> scene, pre_rng |-> rng,
                    draws |-> out.draws, chose |-> out.chose]
        /\ driver' = [driver EXCEPT !.pc = IF out.raised THEN "raised" ELSE "render"]
        /\ UNCHANGED <<rgb, callers>>

\* the environment is set, the output enabled and scene_manager.render() called
MainRender ==
    /\ driver.pc = "render"
    /\ driver' = [driver EXCEPT !.pc = "dump"]
    /\ UNCHANGED <<scene, rng, store, made, call, calls, rgb, callers>>

\* json.dump(lighting_meta) into <lighting_type>_example/lighting_meta.json
MainDump ==
    /\ driver.pc = "dump"
    /\ driver' = [driver EXCEPT !.pc = "cleanup",
                                !.saved_meta = IF main_lighting_types[driver.i] = "studio"
                                               THEN [lighting_setup |-> store]
                                               ELSE @]
    /\ UNCHANGED <<scene, rng, store, made, call, calls, rgb, callers>>

\* clear_lights() at the end of an iteration, then the next lighting type or,
\* after the last one, the second example
MainCleanup ==
    /\ driver.pc = "cleanup"
    /\ scene' = clear_lights(scene)
    /\ call' = [NoCall EXCEPT !.op = "clear", !.pre_scene = scene, !.pre_rng = rng]
    /\ calls' = calls + 1
    /\ driver' = IF driver.i < Len(main_lighting_types)
                 THEN [driver EXCEPT !.pc = "loop_clear", !.i = @ + 1]
                 ELSE [driver EXCEPT !.pc = "load"]
    /\ UNCHANGED <<rng, store, made, rgb, callers>>

\* if the studio example's file exists: json.load, clear_lights(),
\* clear_environment(); otherwise the script is done
MainLoadClear ==
    /\ driver.pc = "load"
    /\ IF driver.saved_meta # <<>>
       THEN /\ scene' = clear_lights(scene)
            /\ call' = [NoCall EXCEPT !.op = "clear", !.pre_scene = scene, !.pre_rng = rng]
            /\ calls' = calls + 1
            /\ driver' = [driver EXCEPT !.pc = "recreate"]
       ELSE /\ driver' = [driver EXCEPT !.pc = "done"]
            /\ UNCHANGED <<scene, call, calls>>
    /\ UNCHANGED <<rng, store, made, rgb, callers>>

\* lights = setup_lighting_from_metadata(saved_meta["lighting_setup"])
MainRecreate ==
    /\ driver.pc = "recreate"
    /\ \E out \in {setup_lighting_from_metadata(driver.saved_meta["lighting_setup"], scene, rng)} :
        /\ calls' = calls + 1
        /\ scene' = out.scene
        /\ rng' = out.rng
        /\ made' = IF out.raised THEN made ELSE out.lights
        /\ call' = [op |-> "reconstruct", forced |-> None,
                    input |-> driver.saved_meta["lighting_setup"],
                    raised |-> out.raised, error |-> out.error, lights |-> out.lights,
                    metadata |-> <<>>, pre_scene |-> scene, pre_rng |-> rng,
                    draws |-> out.draws, chose |-> out.chose]
        /\ driver' = [driver EXCEPT !.pc = IF out.raised THEN "raised" ELSE "recreate_render"]
        /\ UNCHANGED <<store, rgb, callers>>

\* the environment is set, the recreated setup rendered and saved_meta written
MainRecreateRender ==
    /\ driver.pc = "recreate_render"
    /\ driver' = [driver EXCEPT !.pc = "done"]
    /\ UNCHANGED <<scene, rng, store, made, call, calls, rgb, callers>>

NextMain ==
    \/ MainLoopClear
    \/ MainGenerate
    \/ MainRender
    \/ MainDump
    \/ MainCleanup
    \/ MainLoadClear
    \/ MainRecreate
    \/ MainRecreateRender

SpecMain == InitMain /\ [][NextMain]_vars

(***************************************************************************)
(* Properties.                                                             *)
(***************************************************************************)
Generated == call.op = "generate" /\ ~call.raised
Reconstructed == call.op = "reconstruct"
Kinds(lights) == [i \in 1..Len(lights) |-> lights[i].data_type]
AllOfKind(lights, kind) == \A i \in 1..Len(lights) : lights[i].data_type = kind

\* the entries of a record that its archetype's loop turns into a light
Recognized(lighting_type, e) ==
    CASE lighting_type = "studio" -> "role" \in DOMAIN e /\ e["role"] \in {"key", "fill", "back"}
      [] lighting_type = "dramatic" -> "type" \in DOMAIN e /\ e["type"] = "area"
      [] lighting_type = "natural" -> "type" \in DOMAIN e /\ e["type"] \in {"sun", "area"}
      [] lighting_type = "random" -> "type" \in DOMAIN e /\ e["type"] = "point"
      [] OTHER -> FALSE

\* a record that reaches the loop over its lights
HasLightList(m) ==
    /\ "lighting_type" \in DOMAIN m
    /\ m["lighting_type"] \in {"studio", "dramatic", "natural", "random"}
    /\ "lights" \in DOMAIN m

RecognizedEntries(m) ==
    SelectSeq(m["lights"], LAMBDA e : Recognized(m["lighting_type"], e))

\* C1: reconstructing from the metadata that generate returned creates the same
\* ordered sequence of lights as generate created (same count, and per index the
\* same kind, position, rotation, energy, colour, size/angle and shape), and
\* links exactly these to the scene.
C1_RoundTrip ==
    (Reconstructed /\ store # <<>> /\ call.input = store)
        => /\ ~call.raised
           /\ call.lights = made
           /\ scene = call.pre_scene \o made

C1_Witness ==
    /\ Reconstructed /\ store # <<>> /\ call.input = store
    /\ store["lighting_type"] = "natural"
    /\ Len(call.lights) = 2

\* C2: the lights generate returns are, per archetype: studio exactly 3 Area;
\* dramatic 1 or 2 Area; natural 1 Sun followed by 1 Area; random 2 to 5 Point;
\* env_map none.
ArchetypeShape(lighting_type, lights) ==
    CASE lighting_type = "studio" -> Kinds(lights) = <<"AREA", "AREA", "AREA">>
      [] lighting_type = "dramatic" -> Len(lights) \in {1, 2} /\ AllOfKind(lights, "AREA")
      [] lighting_type = "natural" -> Kinds(lights) = <<"SUN", "AREA">>
      [] lighting_type = "random" -> Len(lights) \in 2..5 /\ AllOfKind(lights, "POINT")
      [] lighting_type = "env_map" -> lights = <<>>
      [] OTHER -> FALSE

C2_CountsAndKinds ==
    Generated => ArchetypeShape(call.metadata["lighting_type"], call.lights)

C2_Witness ==
    /\ Generated
    /\ call.metadata["lighting_type"] = "dramatic"
    /\ Len(call.lights) = 2

\* C3: for every temperature in [2700, 7500] each channel of
\* blackbody_to_rgb(temperature) lies in [0, 1].
C3_ChannelsNormalized ==
    (rgb.called /\ Between(rgb.temperature, Num(2700), Num(7500)))
        => \A c \in 1..3 : Between(rgb.value[c], Zero, One)

\* C4 as stated: blackbody_to_rgb(4000) is exactly (1.0, 1.0, 0.8).
C4_BoundaryAsStated ==
    (rgb.called /\ rgb.temperature = Num(4000)) => rgb.value = <<One, One, R(8, 10)>>

\* C4 amended: 4000 K takes the <= branch, so blackbody_to_rgb(4000) is exactly
\* (1.0, 1.0, 1.0); blue 0.8 is approached only from above 4000 K.
C4_Boundary ==
    /\ (rgb.called /\ rgb.temperature = Num(4000)) => rgb.value = <<One, One, One>>
    /\ (rgb.called /\ rgb.temperature = R(8001, 2))
          => rgb.value = <<One, One, Add(R(8, 10), R(1, 25000))>>

C4_Witness == rgb.called /\ rgb.temperature = Num(4000)

\* the recognized entries of the record of the last reconstruction, in order
Entries == RecognizedEntries(call.input)
Archetype == call.input["lighting_type"]

\* C5 as stated: a recognized entry of any archetype that carries a stored color
\* gives a light of exactly that colour.
C5_StoredColorAsStated ==
    (Reconstructed /\ ~call.raised /\ HasLightList(call.input))
        => \A i \in 1..Len(Entries) :
             "color" \in DOMAIN Entries[i]
                => call.lights[i].color = Tuple(Entries[i]["color"])

\* C5 amended: the stored color is used (and takes precedence over the
\* temperature) for the point entries of a random record only; the lights of a
\* studio, dramatic or natural record get blackbody_to_rgb(color_temperature)
\* whether or not the entry carries a color.
C5_StoredColor ==
    (Reconstructed /\ ~call.raised /\ HasLightList(call.input))
        => /\ Len(Entries) = Len(call.lights)
           /\ \A i \in 1..Len(Entries) :
                IF Archetype = "random"
                THEN call.lights[i].color = Tuple(Entries[i]["color"])
                ELSE call.lights[i].color
                        = blackbody_to_rgb(Entries[i]["color_temperature"])

C5_Witness ==
    /\ Reconstructed /\ ~call.raised /\ HasLightList(call.input)
    /\ Archetype = "random"
    /\ \E i \in 1..Len(Entries) :
          /\ Entries[i]["color"] = StoredColor
          /\ call.lights[i].color = StoredColor
          /\ blackbody_to_rgb(Entries[i]["color_temperature"]) # StoredColor

\* the keys other than color that the loop reads from a recognized entry
KeysBesidesColor(lighting_type, e) ==
    CASE lighting_type \in {"studio", "dramatic"}
           -> {"position", "rotation", "energy", "color_temperature", "size"}
      [] lighting_type = "natural" /\ e["type"] = "sun"
           -> {"rotation", "energy", "color_temperature", "angle"}
      [] lighting_type = "natural" /\ e["type"] = "area"
           -> {"position", "energy", "color_temperature", "size"}
      [] lighting_type = "random"
           -> {"position", "energy", "color_temperature", "size"}

Discriminant(lighting_type) == IF lighting_type = "studio" THEN "role" ELSE "type"

\* a record whose entries all carry their discriminant and whose recognized
\* entries are complete, the color aside
CompleteBesidesColor(m) ==
    /\ HasLightList(m)
    /\ \A i \in DOMAIN m["lights"] :
          /\ Discriminant(m["lighting_type"]) \in DOMAIN m["lights"][i]
          /\ Recognized(m["lighting_type"], m["lights"][i])
                => KeysBesidesColor(m["lighting_type"], m["lights"][i])
                      \subseteq DOMAIN m["lights"][i]

\* C6 as stated: a recognized entry without color but with color_temperature
\* (a point entry of a random record included) is decoded without error into a
\* light of colour blackbody_to_rgb(color_temperature).
C6_RederivedColorAsStated ==
    (Reconstructed /\ CompleteBesidesColor(call.input))
        => /\ ~call.raised
           /\ \A i \in 1..Len(Entries) :
                "color" \notin DOMAIN Entries[i]
                   => call.lights[i].color
                         = blackbody_to_rgb(Entries[i]["color_temperature"])

\* C6 amended: this holds for the entries of studio, dramatic and natural
\* records; a point entry of a random record that has no color makes the decode
\* raise KeyError('color'), its color_temperature is never read.
C6_RederivedColor ==
    (Reconstructed /\ CompleteBesidesColor(call.input))
        => IF Archetype = "random"
           THEN IF \E i \in 1..Len(Entries) : "color" \notin DOMAIN Entries[i]
                THEN call.raised /\ call.error = KeyError("", "color")
                ELSE ~call.raised
           ELSE /\ ~call.raised
                /\ \A i \in 1..Len(Entries) :
                     call.lights[i].color
                        = blackbody_to_rgb(Entries[i]["color_temperature"])

C6_Witness ==
    /\ Reconstructed /\ CompleteBesidesColor(call.input)
    /\ Archetype = "random"
    /\ \E i \in 1..Len(Entries) :
          /\ "color" \notin DOMAIN Entries[i]
          /\ "color_temperature" \in DOMAIN Entries[i]
    /\ call.raised

\* C7: whenever the reconstruction raises, no light it created is left in the
\* scene: the scene is as it was before the call.
C7_FailedDecodeLeavesScene ==
    (Reconstructed /\ call.raised) => scene = call.pre_scene

\* the number of values a sampler draws for n lights
ExpectedDraws(lighting_type, n) ==
    CASE lighting_type = "env_map" -> 1
      [] lighting_type = "studio" -> 6
      [] lighting_type = "dramatic" -> 1 + 7 * n
      [] lighting_type = "natural" -> 12
      [] lighting_type = "random" -> 1 + 5 * n

\* C8: with a valid archetype name forced, generate produces that archetype from
\* any state of the random source: the metadata names it, the lights are those
\* of its sampler run on the untouched random source, and the weighted
\* archetype draw is not made.
C8_ForcedArchetype ==
    (call.op = "generate" /\ call.forced \in Range(lighting_types))
        => /\ ~call.raised
           /\ call.metadata["lighting_type"] = call.forced
           /\ ArchetypeShape(call.forced, call.lights)
           /\ Len(call.metadata["lights"]) = Len(call.lights)
           /\ ~call.chose
           /\ call.draws = ExpectedDraws(call.forced, Len(call.lights))
           /\ rng = Advance(call.pre_rng, call.draws)
           /\ call.lights = sample(call.forced, call.pre_scene, call.pre_rng).lights

C8_Witness ==
    /\ Generated
    /\ call.forced = "studio"
    /\ choices(call.pre_rng, lighting_types, lighting_weights) = "random"

\* C9: a forced name that is none of the five archetypes makes generate fail
\* with the invalid-argument error (ValueError) that names the value and the
\* valid set, before any light is created and before any random value is drawn.
C9_InvalidForcedName ==
    (call.op = "generate" /\ call.forced # None
        /\ call.forced \notin {"studio", "dramatic", "natural", "random", "env_map"})
        => /\ call.raised
           /\ call.error.type = "ValueError"
           /\ call.error.value = call.forced
           /\ Range(call.error.valid)
                 = {"studio", "dramatic", "natural", "random", "env_map"}
           /\ scene = call.pre_scene
           /\ rng = call.pre_rng
           /\ call.draws = 0 /\ ~call.chose
           /\ call.lights = <<>>

C9_Witness ==
    /\ call.op = "generate" /\ call.forced = "bogus" /\ call.raised
    /\ LightsOf(call.pre_scene) # <<>>
    /\ scene = call.pre_scene

\* the three decode failures of the record's top level
NoTypeKey == Reconstructed /\ "lighting_type" \notin DOMAIN call.input
BadTypeTag ==
    /\ Reconstructed /\ "lighting_type" \in DOMAIN call.input
    /\ call.input["lighting_type"] \notin Range(valid_types)
NoLightsKey ==
    /\ Reconstructed /\ "lighting_type" \in DOMAIN call.input
    /\ call.input["lighting_type"] \in {"studio", "dramatic", "natural", "random"}
    /\ "lights" \notin DOMAIN call.input

\* C10 as stated: a record without lighting_type fails with the error kind of
\* an absent lights list (KeyError in the code), which is not the kind of an
\* unrecognized archetype tag (ValueError in the code).
C10_MissingTypeKindAsStated ==
    NoTypeKey => /\ call.raised
                 /\ call.error.type = "KeyError"
                 /\ call.error.type # "ValueError"

\* C10 amended: a record without lighting_type fails with ValueError, the kind
\* also raised for an unrecognized archetype tag, and distinct from the KeyError
\* raised for an absent lights list.
C10_MissingTypeKind ==
    /\ NoTypeKey => call.raised /\ call.error.type = "ValueError"
    /\ BadTypeTag => call.raised /\ call.error.type = "ValueError"
    /\ NoLightsKey => call.raised /\ call.error.type = "KeyError"

C10_Witness ==
    /\ NoTypeKey /\ call.raised
    /\ "lights" \in DOMAIN call.input
    /\ Len(call.input["lights"]) = 3

\* C11: a record whose lighting_type is present but is none of the five valid
\* values makes the reconstruction fail with the invalid-value error (ValueError
\* naming the value and the valid set), with or without a lights list and
\* whatever the list holds; no light is created and the scene is untouched.
C11_InvalidTag ==
    BadTypeTag
        => /\ call.raised
           /\ call.error = ValueError("Invalid lighting_type",
                                      call.input["lighting_type"], valid_types)
           /\ call.lights = <<>>
           /\ scene = call.pre_scene

C11_Witness ==
    /\ BadTypeTag /\ call.raised
    /\ "lights" \notin DOMAIN call.input
    /\ LightsOf(call.pre_scene) # <<>>

\* C12: a record tagged studio, dramatic, natural or random that has no lights
\* key makes the reconstruction fail with the missing-field error (KeyError
\* naming the lights array); no light is created and the scene is untouched.
C12_MissingLights ==
    NoLightsKey
        => /\ call.raised
           /\ call.error = KeyError("Metadata must include 'lights' array",
                                    call.input["lighting_type"])
           /\ call.lights = <<>>
           /\ scene = call.pre_scene

C12_Witness ==
    /\ NoLightsKey /\ call.raised
    /\ call.input["lighting_type"] = "dramatic"
    /\ LightsOf(call.pre_scene) # <<>>

\* the keys the loop reads from a recognized entry
KeysRead(lighting_type, e) ==
    IF lighting_type = "random" THEN {"position", "energy", "color", "size"}
    ELSE KeysBesidesColor(lighting_type, e)

\* the entries the loop passes without raising: skipped, or recognized and complete
Readable(lighting_type, e) ==
    /\ Discriminant(lighting_type) \in DOMAIN e
    /\ Recognized(lighting_type, e) => KeysRead(lighting_type, e) \subseteq DOMAIN e

\* the positions of the entries that lack the discriminant of their archetype
Lacking(m) ==
    {i \in DOMAIN m["lights"] : Discriminant(m["lighting_type"]) \notin DOMAIN m["lights"][i]}

\* the error raised for an entry without its discriminant
DiscriminantError(lighting_type) ==
    CASE lighting_type = "studio" -> KeyError("Studio light metadata must include 'role'", "")
      [] lighting_type = "dramatic" -> KeyError("Dramatic light metadata must include 'type'", "")
      [] lighting_type = "natural" -> KeyError("Natural light metadata must include 'type'", "")
      [] lighting_type = "random" -> KeyError("Random light metadata must include 'type'", "")

\* C13: when an entry of the lights list lacks its discriminant key (role for
\* studio; type for dramatic, natural and random), at any position of the list,
\* the reconstruction fails with the missing-field error (KeyError) and returns
\* no list; when the entries before it are readable, the error is the one that
\* names the discriminant.
C13_MissingDiscriminant ==
    (Reconstructed /\ HasLightList(call.input) /\ Lacking(call.input) # {})
        => /\ call.raised
           /\ call.error.type = "KeyError"
           /\ call.lights = <<>>
           /\ (\A i \in Lacking(call.input) :
                 (\A j \in 1..(i - 1) : Readable(Archetype, call.input["lights"][j]))
                    => call.error = DiscriminantError(Archetype))

C13_Witness ==
    /\ Reconstructed /\ HasLightList(call.input) /\ call.raised
    /\ Archetype = "studio"
    /\ Lacking(call.input) = {3}
    /\ call.error = DiscriminantError("studio")

\* the kind of light a recognized entry is turned into
KindOf(lighting_type, e) ==
    CASE lighting_type \in {"studio", "dramatic"} -> "AREA"
      [] lighting_type = "natural" -> IF e["type"] = "sun" THEN "SUN" ELSE "AREA"
      [] lighting_type = "random" -> "POINT"

\* C14: permissive skip. When every entry of the list carries its discriminant
\* and every recognized entry (studio: role key/fill/back; dramatic: type area;
\* natural: type sun/area; random: type point) has the fields its light needs,
\* the reconstruction returns without error, whatever the unrecognized entries
\* hold or lack; the lights returned are those of the recognized entries, one
\* each, in the order of the list, and exactly these are added to the scene.
C14_PermissiveSkip ==
    (Reconstructed /\ HasLightList(call.input)
        /\ \A i \in DOMAIN call.input["lights"] : Readable(Archetype, call.input["lights"][i]))
        => /\ ~call.raised
           /\ Len(call.lights) = Len(Entries)
           /\ \A i \in 1..Len(Entries) :
                /\ call.lights[i].data_type = KindOf(Archetype, Entries[i])
                /\ call.lights[i].energy = Entries[i]["energy"]
                /\ "position" \in DOMAIN Entries[i]
                      => call.lights[i].location = Tuple(Entries[i]["position"])
           /\ scene = call.pre_scene \o call.lights

C14_Witness ==
    /\ Reconstructed /\ HasLightList(call.input) /\ ~call.raised
    /\ Archetype = "studio"
    /\ Len(call.input["lights"]) = 3
    /\ Len(call.lights) = 2
    /\ \E i \in 1..3 :
          /\ call.input["lights"][i]["role"] = "unknown"
          /\ "position" \notin DOMAIN call.input["lights"][i]

\* a record tagged env_map
EnvMapTag ==
    /\ Reconstructed /\ "lighting_type" \in DOMAIN call.input
    /\ call.input["lighting_type"] = "env_map"

\* C15: reconstructing from a record tagged env_map returns an empty list of
\* lights without error and leaves the scene as it was, whether the record has
\* no lights key, an empty list or a list of entries (complete, edited or
\* without discriminant), and whether or not it has an env_map strength.
C15_EnvMapDecodesEmpty ==
    EnvMapTag
        => /\ ~call.raised
           /\ call.lights = <<>>
           /\ scene = call.pre_scene

C15_Witness ==
    /\ EnvMapTag /\ ~call.raised
    /\ "env_map" \notin DOMAIN call.input
    /\ "lights" \in DOMAIN call.input
    /\ call.input["lights"] = <<BareEntry>>
    /\ LightsOf(call.pre_scene) # <<>>

\* the same record reconstructed from two other states of the random source, on
\* the scene of the call and on that scene without its lights
OtherSeeds == {(call.pre_rng + 1) % RngStates, (call.pre_rng + 3) % RngStates}
OtherScenes == {call.pre_scene, clear_lights(call.pre_scene)}

\* C16: reconstruction draws no randomness and is a function of the record
\* alone: it leaves the random source as it found it, and the same record
\* reconstructed from another state of the random source, on a scene with
\* other contents, raises the same error or returns the same sequence of lights.
C16_Deterministic ==
    Reconstructed
        => /\ rng = call.pre_rng
           /\ call.draws = 0
           /\ \A s2 \in OtherSeeds, sc2 \in OtherScenes :
                \A o \in {setup_lighting_from_metadata(call.input, sc2, s2)} :
                   /\ o.rng = s2
                   /\ o.raised = call.raised
                   /\ o.error = call.error
                   /\ o.lights = call.lights

C16_Witness ==
    /\ Reconstructed /\ ~call.raised /\ HasLightList(call.input)
    /\ Archetype = "random"
    /\ Len(call.lights) >= 2
    /\ LightsOf(call.pre_scene) # <<>>
    /\ call.pre_rng \notin OtherSeeds

\* the documented intervals of the sampled fields of one metadata entry
EnergyAndTemperature(e, elo, ehi, tlo, thi) ==
    /\ Between(e["energy"], Num(elo), Num(ehi))
    /\ Between(e["color_temperature"], Num(tlo), Num(thi))

EntryInRange(lighting_type, e) ==
    CASE lighting_type = "studio" /\ e["role"] = "key"
           -> EnergyAndTemperature(e, 800, 1500, 4000, 5500)
      [] lighting_type = "studio" /\ e["role"] = "fill"
           -> EnergyAndTemperature(e, 200, 600, 6000, 7500)
      [] lighting_type = "studio" /\ e["role"] = "back"
           -> EnergyAndTemperature(e, 400, 800, 2700, 3500)
      [] lighting_type = "dramatic"
           -> /\ EnergyAndTemperature(e, 1000, 2000, 2700, 3500)
              /\ \A c \in 1..2 : Between(e["size"][c], R(1, 2), Num(2))
      [] lighting_type = "natural" /\ e["type"] = "sun"
           -> EnergyAndTemperature(e, 2, 5, 4000, 5500)
      [] lighting_type = "natural" /\ e["type"] = "area"
           -> /\ EnergyAndTemperature(e, 200, 400, 6000, 7500)
              /\ \A c \in 1..2 : Between(e["position"][c], Num(-3), Num(3))
              /\ Between(e["position"][3], Num(1), Num(3))
              /\ \A c \in 1..2 : Between(e["size"][c], Num(1), Num(3))
      [] lighting_type = "random"
           -> EnergyAndTemperature(e, 300, 800, 4000, 5500)
      [] OTHER -> FALSE

\* C17: every sampled numeric field of the metadata that generate returns lies
\* in its documented closed interval (energies and temperatures per archetype
\* and role, the size components of dramatic lights, position and size of the
\* natural fill light, the strength of env_map in [0.8, 1.5]).
C17_SampledRanges ==
    Generated
        => /\ \A i \in DOMAIN call.metadata["lights"] :
                EntryInRange(call.metadata["lighting_type"], call.metadata["lights"][i])
           /\ call.metadata["lighting_type"] = "env_map"
                 => Between(call.metadata["env_map"]["strength"], R(8, 10), R(15, 10))

C17_Witness ==
    /\ Generated
    /\ call.metadata["lighting_type"] = "natural"
    /\ call.metadata["lights"][2]["energy"] = Num(400)
    /\ call.metadata["lights"][2]["position"][1] = Num(-3)

\* C18: metadata completeness. Every entry of the metadata that generate
\* returns, for every archetype and every state of the random source, is one
\* its archetype's loop recognizes and holds every key that loop reads for it;
\* so reconstructing from the record as generated raises no error and skips no
\* entry: it returns one light per entry.
C18_MetadataComplete ==
    /\ Generated
          => /\ {"lighting_type", "lights"} \subseteq DOMAIN call.metadata
             /\ \A i \in DOMAIN call.metadata["lights"] :
                  /\ Recognized(call.metadata["lighting_type"], call.metadata["lights"][i])
                  /\ KeysRead(call.metadata["lighting_type"], call.metadata["lights"][i])
                        \subseteq DOMAIN call.metadata["lights"][i]
    /\ (Reconstructed /\ store # <<>> /\ call.input = store)
          => /\ ~call.raised
             /\ Len(call.lights) = Len(store["lights"])

C18_Witness ==
    /\ Reconstructed /\ store # <<>> /\ call.input = store
    /\ store["lighting_type"] = "random"
    /\ Len(store["lights"]) = 5
    /\ Len(call.lights) = 5

\* the documented line through (t0, v0) of slope rise/run
Linear(t, t0, v0, rise, run) == Add(v0, Mul(rise, Div(Sub(t, Num(t0)), Num(run))))

C21_ClearRemovesAllLights ==
    call.op = "clear"
        => /\ LightsOf(scene) = <<>>
           /\ \A i \in DOMAIN scene : scene[i].type # "LIGHT"
           /\ scene = NonLightsOf(call.pre_scene)
           /\ scene = <<CameraObject, MeshObject>>

C21_Witness ==
    /\ call.op = "clear"
    /\ Len(LightsOf(call.pre_scene)) >= 2
    /\ Kinds(LightsOf(call.pre_scene))[1] # Kinds(LightsOf(call.pre_scene))[2]
    /\ scene = <<CameraObject, MeshObject>>


\* C22: every colour that generate_random_lighting_setup gives a light, for
\* every archetype, role and outcome of the draws (the cool-band fill lights
\* included), is a normalized RGB triple: each channel lies in [0, 1].
C22_GeneratedColorsNormalized ==
    Generated
        => \A i \in 1..Len(call.lights) :
             \A c \in 1..3 : Between(call.lights[i].color[c], Zero, One)


\* the objects a call appended to the scene it found
Added == SubSeq(scene, Len(call.pre_scene) + 1, Len(scene))

\* C26: generate_random_lighting_setup and setup_lighting_from_metadata only
\* add to the scene: every object that existed before the call is still there,
\* unchanged and in place; what the call added are lights only; a successful
\* call added exactly the lights of the list it returns (and, for generate, as
\* many as its metadata `lights` has entries); and the scene's number of lights
\* is the number before the call plus the number the call added, so that over a
\* sequence of calls it is the sum of what the calls added.
C26_PurelyAdditive ==
    call.op \in {"generate", "reconstruct"}
        => /\ Len(scene) >= Len(call.pre_scene)
           /\ SubSeq(scene, 1, Len(call.pre_scene)) = call.pre_scene
           /\ \A i \in DOMAIN Added : Added[i].type = "LIGHT"
           /\ ~call.raised => Added = call.lights
           /\ Generated => Len(call.metadata["lights"]) = Len(call.lights)
           /\ Len(LightsOf(scene)) = Len(LightsOf(call.pre_scene)) + Len(Added)

C26_Witness ==
    /\ Reconstructed /\ ~call.raised
    /\ Len(LightsOf(call.pre_scene)) >= 2
    /\ Len(call.lights) >= 2
    /\ Len(LightsOf(scene)) = Len(LightsOf(call.pre_scene)) + Len(call.lights)


\* C23 as stated: every setup that setup_lighting_from_metadata returns without
\* error, for any input record, has the shape of its archetype: studio exactly
\* 3 Area lights, dramatic 1 or 2 Area lights, natural 1 Sun and 1 Area,
\* random 2 to 5 Point lights, env_map none.
C23_DecodedShapeAsStated ==
    (Reconstructed /\ ~call.raised /\ "lighting_type" \in DOMAIN call.input)
        => ArchetypeShape(call.input["lighting_type"], call.lights)

\* C23 amended: a setup returned without error has a tag among the five
\* archetypes; its lights are of the kinds its archetype admits (studio and
\* dramatic Area, natural Sun for a sun entry and Area for an area entry,
\* random Point, env_map none), one per recognized entry of the record and in
\* the record's order; the number of lights is whatever the record holds and
\* is not validated; it is the archetype's number when the record is the one
\* generate returned.
C23_DecodedShape ==
    (Reconstructed /\ ~call.raised)
        => /\ "lighting_type" \in DOMAIN call.input
           /\ call.input["lighting_type"] \in Range(valid_types)
           /\ IF call.input["lighting_type"] = "env_map"
              THEN call.lights = <<>>
              ELSE /\ "lights" \in DOMAIN call.input
                   /\ Len(call.lights) = Len(Entries)
                   /\ \A i \in 1..Len(Entries) :
                        call.lights[i].data_type = KindOf(Archetype, Entries[i])
           /\ call.input = store => ArchetypeShape(call.input["lighting_type"], call.lights)

C23_Witness ==
    /\ Reconstructed /\ ~call.raised
    /\ "lighting_type" \in DOMAIN call.input
    /\ call.input["lighting_type"] = "studio"
    /\ Len(call.input["lights"]) = 3
    /\ Kinds(call.lights) = <<"AREA", "AREA">>


\* what a caller gets from generate(forced) when it is the only caller of the
\* process: the call on the scene and the random state the process started with
Alone(forced) ==
    generate_random_lighting_setup(forced, <<CameraObject, MeshObject>>, callers.seed)

\* C24: the engine holds no shared state. When two callers make their generate
\* calls in either order, each gets exactly the lights and the metadata (or the
\* error) it would get running alone; no result depends on the other caller's
\* call or on an earlier call.
C24_CallersIndependent ==
    \A c \in DOMAIN callers.results :
        callers.results[c].done
            => \A alone \in {Alone(callers.results[c].forced)} :
                 /\ callers.results[c].raised = alone.raised
                 /\ callers.results[c].lights = alone.lights
                 /\ callers.results[c].metadata = alone.metadata


\* C25: clear-before-create in render_lighting.main. Whenever the script is
\* about to render, in every iteration of the loop and in the recreation step,
\* the lights in the scene are exactly the lights that this iteration's
\* generate or reconstruct call returned, none left from the opened file or an
\* earlier iteration; and when the loop has ended no light is in the scene.
C25_ClearBeforeCreate ==
    /\ driver.pc \in {"render", "recreate_render"}
          => /\ call.op = (IF driver.pc = "render" THEN "generate" ELSE "reconstruct")
             /\ ~call.raised
             /\ made = call.lights
             /\ LightsOf(scene) = made
             /\ LightsOf(call.pre_scene) = <<>>
    /\ driver.pc = "load" => LightsOf(scene) = <<>>

C25_Witness ==
    /\ driver.pc = "recreate_render"
    /\ Kinds(LightsOf(scene)) = <<"AREA", "AREA", "AREA">>
    /\ LightsOf(scene) = made
    /\ driver.i = Len(main_lighting_types)

====
